---------------------------- MODULE Spec2Model ----------------------------
(***************************************************************************)
(* hybridLambdaMaker.py: conversion of Newick tree strings into input for  *)
(* Hybrid-Lambda.  A text is a sequence of one-character strings.          *)
(*                                                                         *)
(* Three specifications are defined over the same variables:               *)
(*   SpecLabel  addNodeNumb applied to arbitrary bounded texts             *)
(*   SpecHybr   addHybrDict applied to a set of tree strings               *)
(*   Spec       main: check of parentInfo, reading, the loop over trees,   *)
(*              the output file                                            *)
(***************************************************************************)
EXTENDS Integers, Sequences, FiniteSets, TLC

VARIABLES
    pc,         \* position of main (or "label"/"hybr" in the function specs)
    treeName,   \* main: name of the input file
    parentInfo, \* main: the -p argument, a text
    inData,     \* main: the lines of the input file
    fileRead,   \* main: TRUE once the input file has been opened and read
    trees,      \* main: the retained lines
    tIdx,       \* main: number of trees fully processed
    outList,    \* main: the transformed trees
    outf,       \* main: the output file, NoFile until it is opened
    treeStr,    \* the text handed to addHybrDict
    inTree,     \* addHybrDict: the cumulatively modified text
    hybrDict,   \* addHybrDict: mapping label -> probability text
    order,      \* addHybrDict: iteration order of hybrDict.iteritems()
    idx,        \* addHybrDict: number of entries completely processed
    phase,      \* addHybrDict: "split" (step 1 next) or "splice" (steps 2-4 next)
    prevTree,   \* addHybrDict: inTree before the last step
    brlen,      \* addHybrDict: float value parsed in step 1 of the current entry
    half,       \* addHybrDict: str(brlen*0.5) of the current entry
    err,        \* "none" or the error that ended the run
    lnIn,       \* addNodeNumb harness: the input text
    lnOut,      \* addNodeNumb harness: result of the last application
    lnRuns      \* addNodeNumb harness: number of applications so far

vars == <<pc, treeName, parentInfo, inData, fileRead, trees, tIdx, outList,
          outf, treeStr, inTree, hybrDict, order, idx, phase, prevTree,
          brlen, half, err, lnIn, lnOut, lnRuns>>

mainVars  == <<treeName, parentInfo, inData, fileRead, trees, tIdx, outList, outf>>
hybrVars  == <<treeStr, inTree, hybrDict, order, idx, phase, prevTree, brlen, half>>
labelVars == <<lnIn, lnOut, lnRuns>>

---------------------------------------------------------------------------
(* Bounds *)

MaxLen   == 5   \* longest text given to addNodeNumb in SpecLabel
MaxRuns  == 2   \* most successive applications of addNodeNumb in SpecLabel
MaxLines == 3   \* most lines in the input file

---------------------------------------------------------------------------
(* Text primitives (Python str operations used by the script) *)

DigitChars == <<"0", "1", "2", "3", "4", "5", "6", "7", "8", "9">>

IsDigit(c) == \E d \in 1..10 : DigitChars[d] = c

DigitVal(c) == (CHOOSE d \in 1..10 : DigitChars[d] = c) - 1

Whitespace == {" ", "\n", "\t"}

\* str(n) for an integer n >= 0
RECURSIVE IntStr(_)
IntStr(n) ==
    IF n < 10 THEN <<DigitChars[n + 1]>>
    ELSE IntStr(n \div 10) \o <<DigitChars[(n % 10) + 1]>>

\* s[i:] (1-based i)
From(s, i) == SubSeq(s, i, Len(s))

\* sub occurs in s at position i
OccursAt(s, sub, i) ==
    /\ i >= 1
    /\ i + Len(sub) - 1 <= Len(s)
    /\ SubSeq(s, i, i + Len(sub) - 1) = sub

\* s.find(sub, start): first position >= start where sub occurs, 0 if none
Find(s, sub, start) ==
    LET hits == {i \in start..(Len(s) - Len(sub) + 1) : OccursAt(s, sub, i)}
    IN  IF hits = {} THEN 0 ELSE CHOOSE i \in hits : \A j \in hits : i <= j

\* sub in s
Contains(s, sub) == Find(s, sub, 1) # 0

\* number of (possibly overlapping) occurrences of sub in s
CountSub(s, sub) == Cardinality({i \in 1..Len(s) : OccursAt(s, sub, i)})

\* s.count(c) for a single character c
Count(s, c) == Cardinality({i \in 1..Len(s) : s[i] = c})

\* s.lstrip().rstrip()
RECURSIVE lstrip(_)
lstrip(s) ==
    IF s # <<>> /\ Head(s) \in Whitespace THEN lstrip(Tail(s)) ELSE s

RECURSIVE rstrip(_)
rstrip(s) ==
    IF s # <<>> /\ s[Len(s)] \in Whitespace
    THEN rstrip(SubSeq(s, 1, Len(s) - 1)) ELSE s

strip(s) == rstrip(lstrip(s))

\* s.split(sep) for a single character sep
RECURSIVE split(_, _)
split(s, sep) ==
    LET p == Find(s, <<sep>>, 1)
    IN  IF p = 0 THEN <<s>>
        ELSE <<SubSeq(s, 1, p - 1)>> \o split(From(s, p + 1), sep)

\* sep.join(list)
RECURSIVE join(_, _)
join(list, sep) ==
    IF list = <<>> THEN <<>>
    ELSE IF Len(list) = 1 THEN list[1]
    ELSE list[1] \o sep \o join(Tail(list), sep)

---------------------------------------------------------------------------
(* addNodeNumb *)

\* the for loop of addNodeNumb from position i on, with counter nNodes;
\* outTree is returned already joined
RECURSIVE addNodeNumbLoop(_, _, _)
addNodeNumbLoop(text, i, nNodes) ==
    IF i > Len(text) THEN <<>>
    ELSE IF text[i] = ")"
         THEN <<")", "s">> \o IntStr(nNodes)
                  \o addNodeNumbLoop(text, i + 1, nNodes - 1)
         ELSE <<text[i]>> \o addNodeNumbLoop(text, i + 1, nNodes)

\* a counter that starts at the number of nodes instead of twice that
addNodeNumbSingle(text) == addNodeNumbLoop(text, 1, Count(text, ")"))

addNodeNumb(text) == addNodeNumbLoop(text, 1, Count(text, ")") * 2)

---------------------------------------------------------------------------
(* Python 2 float: float(text), brlen*0.5, str(float)                      *)
(*                                                                         *)
(* A float value is a record [m, e]: m is the sequence of its significant  *)
(* decimal digits (first and last non-zero), and the value is              *)
(* 0.m[1]m[2]... * 10^e.  Zero is [m |-> <<>>, e |-> 0].  Branch-length    *)
(* tokens have at most 13 significant digits, which a double holds, and    *)
(* multiplying a double by 0.5 is exact.                                   *)
(***************************************************************************)

StrPrecision == 12   \* significant digits of Python 2 str(float), "%.12g"

RECURSIVE LeadZeros(_)
LeadZeros(ds) ==
    IF ds # <<>> /\ ds[1] = 0 THEN 1 + LeadZeros(Tail(ds)) ELSE 0

RECURSIVE TrailZeros(_)
TrailZeros(ds) ==
    IF ds # <<>> /\ ds[Len(ds)] = 0
    THEN 1 + TrailZeros(SubSeq(ds, 1, Len(ds) - 1)) ELSE 0

Normal(ds, e) ==
    LET lz == LeadZeros(ds)
    IN  IF lz = Len(ds) THEN [m |-> <<>>, e |-> 0]
        ELSE [m |-> SubSeq(ds, lz + 1, Len(ds) - TrailZeros(ds)), e |-> e - lz]

AllDigits(s) == \A i \in 1..Len(s) : IsDigit(s[i])

Digits(s) == [i \in 1..Len(s) |-> DigitVal(s[i])]

Chars(ds) == [i \in 1..Len(ds) |-> DigitChars[ds[i] + 1]]

Zeros(n) == [i \in 1..n |-> "0"]

RECURSIVE IntVal(_)
IntVal(s) ==
    IF s = <<>> THEN 0
    ELSE 10 * IntVal(SubSeq(s, 1, Len(s) - 1)) + DigitVal(s[Len(s)])

\* digits, an optional ".", digits; at least one digit
IsDecimal(s) ==
    LET p == Find(s, <<".">>, 1)
    IN  IF p = 0 THEN s # <<>> /\ AllDigits(s)
        ELSE /\ Len(s) > 1
             /\ AllDigits(SubSeq(s, 1, p - 1))
             /\ AllDigits(From(s, p + 1))

\* an optional sign, digits
IsExponent(s) ==
    LET t == IF s # <<>> /\ s[1] \in {"+", "-"} THEN Tail(s) ELSE s
    IN  t # <<>> /\ AllDigits(t)

\* float(s) does not raise ValueError (unsigned decimal literals with an
\* optional exponent; every other text of the model is rejected by float)
IsFloat(s) ==
    LET p == Find(s, <<"e">>, 1)
    IN  IF p = 0 THEN IsDecimal(s)
        ELSE IsDecimal(SubSeq(s, 1, p - 1)) /\ IsExponent(From(s, p + 1))

\* float(s), for IsFloat(s)
float(s) ==
    LET pe   == Find(s, <<"e">>, 1)
        mant == IF pe = 0 THEN s ELSE SubSeq(s, 1, pe - 1)
        ex   == IF pe = 0 THEN <<>> ELSE From(s, pe + 1)
        exv  == IF ex = <<>> THEN 0
                ELSE IF ex[1] = "-" THEN 0 - IntVal(Tail(ex))
                ELSE IF ex[1] = "+" THEN IntVal(Tail(ex))
                ELSE IntVal(ex)
        pd   == Find(mant, <<".">>, 1)
        ip   == IF pd = 0 THEN mant ELSE SubSeq(mant, 1, pd - 1)
        fp   == IF pd = 0 THEN <<>> ELSE From(mant, pd + 1)
    IN  Normal(Digits(ip \o fp), Len(ip) + exv)

\* long division by two of a digit sequence
RECURSIVE HalfDigits(_, _)
HalfDigits(ds, carry) ==
    IF ds = <<>> THEN (IF carry = 1 THEN <<5>> ELSE <<>>)
    ELSE LET x == 10 * carry + ds[1]
         IN  <<x \div 2>> \o HalfDigits(Tail(ds), x % 2)

\* v * 0.5
timesHalf(v) == Normal(HalfDigits(v.m, 0), v.e)

RECURSIVE Increment(_)
Increment(ds) ==
    IF ds = <<>> THEN <<1>>
    ELSE IF ds[Len(ds)] < 9 THEN [ds EXCEPT ![Len(ds)] = @ + 1]
    ELSE Increment(SubSeq(ds, 1, Len(ds) - 1)) \o <<0>>

\* rounding of v to StrPrecision significant digits.  When the dropped part
\* is exactly one 5 the decimal value is a tie and the result depends on the
\* binary value of the double: tieUp is the direction taken.
Round(v, tieUp) ==
    IF Len(v.m) <= StrPrecision THEN v
    ELSE LET keep == SubSeq(v.m, 1, StrPrecision)
             rest == From(v.m, StrPrecision + 1)
             up   == \/ rest[1] > 5
                     \/ rest[1] = 5 /\ (Len(rest) > 1 \/ tieUp)
             r    == IF up THEN Increment(keep) ELSE keep
         IN  IF Len(r) > StrPrecision THEN Normal(r, v.e + 1)
             ELSE Normal(r, v.e)

Pad2(s) == IF Len(s) < 2 THEN <<"0">> \o s ELSE s

\* str(v) of Python 2: "%.12g", with ".0" appended to an integer
FloatStr(v, tieUp) ==
    LET r == Round(v, tieUp)
        d == Chars(r.m)
        n == Len(d)
        X == r.e - 1
    IN  IF n = 0 THEN <<"0", ".", "0">>
        ELSE IF X < -4 \/ X >= StrPrecision
             THEN <<d[1]>> \o (IF n > 1 THEN <<".">> \o Tail(d) ELSE <<>>)
                      \o <<"e", IF X < 0 THEN "-" ELSE "+">>
                      \o Pad2(IntStr(IF X < 0 THEN 0 - X ELSE X))
        ELSE IF r.e <= 0 THEN <<"0", ".">> \o Zeros(0 - r.e) \o d
        ELSE IF r.e >= n THEN d \o Zeros(r.e - n) \o <<".", "0">>
        ELSE SubSeq(d, 1, r.e) \o <<".">> \o From(d, r.e + 1)

---------------------------------------------------------------------------
(* GeneralStringOperations (GSO): the module is imported by the script but *)
(* its code is not part of the source files at hand.                       *)
(***************************************************************************)

\* GSO.exstr: the text between the first occurrence of pre and the next
\* occurrence of post; empty when either is missing
exstr(s, pre, post) ==
    LET p == Find(s, pre, 1)
        q == IF p = 0 THEN 0 ELSE Find(s, post, p + Len(pre))
    IN  IF p = 0 \/ q = 0 THEN <<>> ELSE SubSeq(s, p + Len(pre), q - 1)

\* GSO.replstr: s with the text that exstr extracts replaced by repl
replstr(s, pre, post, repl) ==
    LET p == Find(s, pre, 1)
        q == IF p = 0 THEN 0 ELSE Find(s, post, p + Len(pre))
    IN  IF p = 0 \/ q = 0 THEN s
        ELSE SubSeq(s, 1, p + Len(pre) - 1) \o repl \o From(s, q)

\* GSO.csplit: s split in two at the first occurrence of delim; the
\* delimiter starts the right part (rightflag) or ends the left part
csplit(s, delim, rightflag) ==
    LET p == Find(s, delim, 1)
    IN  IF p = 0 THEN <<s>>
        ELSE IF rightflag THEN <<SubSeq(s, 1, p - 1), From(s, p)>>
        ELSE <<SubSeq(s, 1, p + Len(delim) - 1), From(s, p + Len(delim))>>

\* GSO.rmext: the file name without its extension
rmext(name) ==
    LET dots == {i \in 1..Len(name) : name[i] = "."}
    IN  IF dots = {} THEN name
        ELSE SubSeq(name, 1, (CHOOSE i \in dots : \A j \in dots : j <= i) - 1)

---------------------------------------------------------------------------
(* addHybrDict *)

Zero == [m |-> <<>>, e |-> 0]

\* the test of line 62
keyMissing(key, text) == ~Contains(text, key)

\* step 1 of one loop iteration (lines 61-75): the missing-taxon test, then
\* the branch length up to ")" and, on ValueError, up to ","
splitBranch(text, key, tieUp) ==
    IF keyMissing(key, text)
    THEN [err |-> "MissingTaxon", brlen |-> Zero, half |-> <<>>, inTree |-> text]
    ELSE LET k  == key \o <<":">>
             t1 == exstr(text, k, <<")">>)
             t2 == exstr(text, k, <<",">>)
         IN  IF IsFloat(t1)
             THEN LET h == FloatStr(timesHalf(float(t1)), tieUp)
                  IN  [err |-> "none", brlen |-> float(t1), half |-> h,
                       inTree |-> replstr(text, k, <<")">>, h)]
             ELSE IF IsFloat(t2)
             THEN LET h == FloatStr(timesHalf(float(t2)), tieUp)
                  IN  [err |-> "none", brlen |-> float(t2), half |-> h,
                       inTree |-> replstr(text, k, <<",">>, h)]
             ELSE [err |-> "ValueError", brlen |-> Zero, half |-> <<>>,
                   inTree |-> text]

\* a hybrid leaf written without the "#"
hybStrNoHash(val, h, seg) ==
    <<"(", "h">> \o val \o <<":">> \o h \o <<",">> \o seg \o <<")", ":">> \o h

\* step 3 (line 83)
hybStr(val, h, seg) ==
    <<"(", "h", "#">> \o val \o <<":">> \o h \o <<",">> \o seg
        \o <<")", ":">> \o h

\* steps 2-4 of one loop iteration (lines 77-88); h is str(brlen*0.5)
spliceHybrid(text, key, h, val) ==
    LET split1 == csplit(text, key, TRUE)
        aList  == <<split1[1]>> \o csplit(split1[2], key \o <<":">> \o h, FALSE)
    IN  join([aList EXCEPT ![2] = hybStr(val, h, aList[2])], <<>>)

\* the whole loop over the entries in the iteration order ord
RECURSIVE addHybrDict(_, _, _, _)
addHybrDict(text, dict, ord, tieFn) ==
    IF ord = <<>> THEN [err |-> "none", inTree |-> text]
    ELSE LET key == Head(ord)
             s   == splitBranch(text, key, tieFn[key])
         IN  IF s.err # "none" THEN [err |-> s.err, inTree |-> text]
             ELSE addHybrDict(spliceHybrid(s.inTree, key, s.half, dict[key]),
                              dict, Tail(ord), tieFn)

---------------------------------------------------------------------------
(* main *)

NoFile == [name |-> <<>>, content |-> <<>>, open |-> FALSE]

EmptyDict == [k \in {} |-> <<>>]

\* longest prefix of s matched by \d*\.\d+ ; empty if there is none
probPrefix(s) ==
    LET nd == CHOOSE n \in 0..Len(s) :
                  /\ \A i \in 1..n : IsDigit(s[i])
                  /\ n < Len(s) => ~IsDigit(s[n + 1])
        rest == From(s, nd + 2)
        nf == CHOOSE n \in 0..Len(rest) :
                  /\ \A i \in 1..n : IsDigit(rest[i])
                  /\ n < Len(rest) => ~IsDigit(rest[n + 1])
    IN  IF nd < Len(s) /\ s[nd + 1] = "." /\ nf >= 1
        THEN SubSeq(s, 1, nd + 1 + nf) ELSE <<>>

\* re.search('\w+:(\d*\.\d+),\w+:(\d*\.\d+)', info) for an info of at most
\* two entries label:prob with labels in \w+ : the two groups, or <<>> for
\* None.  Group 1 must reach the comma, group 2 is the longest match.
reSearch(info) ==
    LET entries == split(info, ",")
        e1 == split(entries[1], ":")
        e2 == split(entries[2], ":")
    IN  IF /\ Len(entries) >= 2
           /\ Len(e1) = 2 /\ Len(e2) >= 2
           /\ e1[1] # <<>> /\ e2[1] # <<>>
           /\ probPrefix(e1[2]) # <<>> /\ probPrefix(e1[2]) = e1[2]
           /\ probPrefix(e2[2]) # <<>>
        THEN <<probPrefix(e1[2]), probPrefix(e2[2])>>
        ELSE <<>>

\* a test that compares the labels instead of the likelihoods
sameLabels(info) ==
    LET entries == split(info, ",")
    IN  split(entries[1], ":")[1] = split(entries[2], ":")[1]

\* the test of line 103, for an info that the pattern matches
sameLikelihoods(info) == reSearch(info)[1] = reSearch(info)[2]

\* a filter that looks at the first character of the unstripped line
keepLineRaw(line) ==
    LET l == strip(line)
    IN  Len(l) > 0 /\ line[1] # "#"

\* the filter of lines 112-115
keepLine(line) ==
    LET l == strip(line)
    IN  Len(l) > 0 /\ l[1] # "#"

\* re.sub(r'(\[.*?\])\s*?', '', s): every "[...]" group within a line is
\* removed; the lazy \s*? matches nothing
RECURSIVE removeBrackets(_)
removeBrackets(s) ==
    LET p == Find(s, <<"[">>, 1)
        q == IF p = 0 THEN 0 ELSE Find(s, <<"]">>, p + 1)
    IN  IF p = 0 \/ q = 0 THEN s
        ELSE IF \E i \in p..q : s[i] = "\n"
             THEN SubSeq(s, 1, p) \o removeBrackets(From(s, p + 1))
        ELSE SubSeq(s, 1, p - 1) \o removeBrackets(From(s, q + 1))

\* dendropy: Tree.get_from_string, ladderize(ascending=False) and
\* as_string('newick').  The trees of the model are left-ladderized already
\* and the library writes labels and lengths back as read, behind the
\* rooting token.
asString(line) == <<"[", "&", "U", "]", " ">> \o strip(line) \o <<"\n">>

\* lines 120-130: the tree string handed to addHybrDict
normalize(line) == strip(removeBrackets(asString(line)))

\* lines 133-135: aDict; a later entry with the same label replaces an
\* earlier one
RECURSIVE aDictOf(_)
aDictOf(entries) ==
    IF entries = <<>> THEN EmptyDict
    ELSE LET n == Len(entries)
             i == entries[n]
         IN  (split(i, ":")[1] :> split(i, ":")[2])
                 @@ aDictOf(SubSeq(entries, 1, n - 1))

parseParentInfo(info) == aDictOf(split(info, ","))

\* the iteration orders of a dictionary
Orders(dict) ==
    {o \in [1..Cardinality(DOMAIN dict) -> DOMAIN dict] :
        \A i, j \in DOMAIN o : i # j => o[i] # o[j]}

WHybrid == <<".", "w", "H", "y", "b", "r", "i", "d", ".", "t", "r", "e">>

WSister == <<".", "w", "S", "i", "s", "t", "e", "r", ".", "t", "r", "e">>

\* lines 148-151: the name of the output file
outName(name, info) ==
    IF Contains(info, <<",">>) THEN rmext(name) \o WHybrid
    ELSE rmext(name) \o WSister

---------------------------------------------------------------------------
(* Inputs *)

\* characters of the texts given to addNodeNumb in SpecLabel
LabelChars == {"(", ")", "A", "1"}

LabelTexts == UNION {[1..n -> LabelChars] : n \in 0..MaxLen}

\* "((B:1.0,C:1.0):1.0,A:1.0);"
TreeBCA ==
    <<"(","(","B",":","1",".","0",",","C",":","1",".","0",")",":","1",".","0",
      ",","A",":","1",".","0",")",";">>

\* "(B:1.0,h:1.0);"
TreeBh == <<"(","B",":","1",".","0",",","h",":","1",".","0",")",";">>

\* "(A:0.300000000001,B:3);"
TreeLong ==
    <<"(","A",":","0",".","3","0","0","0","0","0","0","0","0","0","0","1",
      ",","B",":","3",")",";">>

\* "(AB:2.5,A:0.0001);"
TreeAB ==
    <<"(","A","B",":","2",".","5",",","A",":","0",".","0","0","0","1",")",";">>

\* "(A:2,B:3);"
TreeInt == <<"(","A",":","2",",","B",":","3",")",";">>

\* tree strings given to addHybrDict in SpecHybr
HybrTrees == {TreeBCA, TreeBh, TreeLong, TreeAB}

HybrKeys == {<<"A">>, <<"B">>, <<"C">>, <<"h">>, <<"A", "B">>}

HybrVals == {<<"0", ".", "6">>, <<"0", ".", "4">>}

\* dictionaries of one or two entries
HybrDicts ==
    UNION {[ks -> HybrVals] :
              ks \in {k \in SUBSET HybrKeys : Cardinality(k) \in {1, 2}}}

\* lines of the input file: a blank line, an indented commented-out tree,
\* and trees
FileLines ==
    { <<" ", "\n">>,
      <<" ", "#">> \o TreeBh \o <<"\n">>,
      TreeBCA \o <<"\n">>,
      TreeBh \o <<"\n">>,
      <<" ">> \o TreeInt \o <<"\n">> }

Files == UNION {[1..n -> FileLines] : n \in 0..MaxLines}

\* values of the -p argument
ParentInfos ==
    { <<"B",":","0",".","6",",","C",":","0",".","4">>,
      <<"B",":","0",".","5",",","C",":","0",".","5">>,
      <<"B",":","0",".","5",",","C",":","0",".","5","0">>,
      <<"A",":","0",".","6">>,
      <<"A",":","0",".","6",",","A",":","0",".","4">>,
      <<"B",":","0",".","4",",","h",":","0",".","6">> }

TreeNames == {<<"t", ".", "t", "r", "e">>}

---------------------------------------------------------------------------
(* Initial states *)

MainIdle ==
    /\ treeName = <<>>
    /\ parentInfo = <<>>
    /\ inData = <<>>
    /\ fileRead = FALSE
    /\ trees = <<>>
    /\ tIdx = 0
    /\ outList = <<>>
    /\ outf = NoFile

HybrIdle ==
    /\ treeStr = <<>>
    /\ inTree = <<>>
    /\ hybrDict = EmptyDict
    /\ order = <<>>
    /\ idx = 0
    /\ phase = "split"
    /\ prevTree = <<>>
    /\ brlen = Zero
    /\ half = <<>>

LabelIdle ==
    /\ lnIn = <<>>
    /\ lnOut = <<>>
    /\ lnRuns = 0

\* main before its first statement
Init ==
    /\ pc = "check"
    /\ err = "none"
    /\ treeName \in TreeNames
    /\ parentInfo \in ParentInfos
    /\ inData \in Files
    /\ fileRead = FALSE
    /\ trees = <<>>
    /\ tIdx = 0
    /\ outList = <<>>
    /\ outf = NoFile
    /\ HybrIdle
    /\ LabelIdle

\* addHybrDict called with a tree string and a dictionary
InitHybr ==
    /\ pc = "hybr"
    /\ err = "none"
    /\ MainIdle
    /\ LabelIdle
    /\ treeStr \in HybrTrees
    /\ inTree = treeStr
    /\ hybrDict \in HybrDicts
    /\ order \in Orders(hybrDict)
    /\ idx = 0
    /\ phase = "split"
    /\ prevTree = treeStr
    /\ brlen = Zero
    /\ half = <<>>

\* addNodeNumb called with a text
InitLabel ==
    /\ pc = "label"
    /\ err = "none"
    /\ MainIdle
    /\ HybrIdle
    /\ lnIn \in LabelTexts
    /\ lnOut = lnIn
    /\ lnRuns = 0

---------------------------------------------------------------------------
(* Actions *)

\* lines 99-106: the likelihood test, before anything else
CheckLikelihoods ==
    /\ pc = "check"
    /\ err = "none"
    /\ IF Contains(parentInfo, <<",">>)
       THEN IF reSearch(parentInfo) = <<>>
            THEN err' = "AttributeError" /\ pc' = "exit"
            ELSE IF sameLikelihoods(parentInfo)
                 THEN err' = "EqualLikelihood" /\ pc' = "exit"
                 ELSE err' = err /\ pc' = "read"
       ELSE err' = err /\ pc' = "read"
    /\ UNCHANGED <<mainVars, hybrVars, labelVars>>

\* lines 108-115: the input file is read and its lines are filtered
ReadTrees ==
    /\ pc = "read"
    /\ fileRead' = TRUE
    /\ trees' = SelectSeq(inData, keepLine)
    /\ pc' = "loop"
    /\ UNCHANGED <<treeName, parentInfo, inData, tIdx, outList, outf, err>>
    /\ UNCHANGED <<hybrVars, labelVars>>

\* lines 118-139: the next tree is normalized, aDict is built and
\* addHybrDict is entered; the dictionary iterates in one order per run
StartTree ==
    /\ pc = "loop"
    /\ tIdx < Len(trees)
    /\ treeStr' = normalize(trees[tIdx + 1])
    /\ hybrDict' = parseParentInfo(parentInfo)
    /\ IF tIdx = 0 THEN order' \in Orders(hybrDict') ELSE order' = order
    /\ inTree' = treeStr'
    /\ prevTree' = treeStr'
    /\ idx' = 0
    /\ phase' = "split"
    /\ brlen' = Zero
    /\ half' = <<>>
    /\ pc' = "tree"
    /\ UNCHANGED <<mainVars, err, labelVars>>

\* lines 59-75: step 1 for the next entry; sys.exit() or an uncaught
\* ValueError ends the run
SplitBranch ==
    /\ pc \in {"tree", "hybr"}
    /\ err = "none"
    /\ phase = "split"
    /\ idx < Len(order)
    /\ \E tieUp \in BOOLEAN :
          LET s == splitBranch(inTree, order[idx + 1], tieUp)
          IN  /\ err' = s.err
              /\ inTree' = s.inTree
              /\ brlen' = s.brlen
              /\ half' = s.half
              /\ phase' = IF s.err = "none" THEN "splice" ELSE phase
              /\ pc' = IF s.err # "none" /\ pc = "tree" THEN "exit" ELSE pc
    /\ prevTree' = inTree
    /\ UNCHANGED <<treeStr, hybrDict, order, idx, mainVars, labelVars>>

\* lines 77-88: steps 2-4 for the current entry
SpliceHybrid ==
    /\ pc \in {"tree", "hybr"}
    /\ err = "none"
    /\ phase = "splice"
    /\ inTree' = spliceHybrid(inTree, order[idx + 1], half,
                              hybrDict[order[idx + 1]])
    /\ prevTree' = inTree
    /\ idx' = idx + 1
    /\ phase' = "split"
    /\ UNCHANGED <<pc, err, treeStr, hybrDict, order, brlen, half>>
    /\ UNCHANGED <<mainVars, labelVars>>

\* a loop body that rewrites the output file after every tree
FinishTreeWriting ==
    /\ pc = "tree"
    /\ err = "none"
    /\ phase = "split"
    /\ idx = Len(order)
    /\ outList' = Append(outList, addNodeNumb(inTree))
    /\ outf' = [name |-> outName(treeName, parentInfo),
                content |-> join(outList', <<"\n">>), open |-> TRUE]
    /\ tIdx' = tIdx + 1
    /\ pc' = "loop"
    /\ UNCHANGED <<treeName, parentInfo, inData, fileRead, trees, err>>
    /\ UNCHANGED <<hybrVars, labelVars>>

\* lines 139-145: addHybrDict has returned; the nodes are numbered and the
\* tree is added to outList
FinishTree ==
    /\ pc = "tree"
    /\ err = "none"
    /\ phase = "split"
    /\ idx = Len(order)
    /\ outList' = Append(outList, addNodeNumb(inTree))
    /\ tIdx' = tIdx + 1
    /\ pc' = "loop"
    /\ UNCHANGED <<treeName, parentInfo, inData, fileRead, trees, outf, err>>
    /\ UNCHANGED <<hybrVars, labelVars>>

\* lines 147-153: the output file is opened, written and closed
WriteOutput ==
    /\ pc = "loop"
    /\ tIdx = Len(trees)
    /\ outf' = [name |-> outName(treeName, parentInfo),
                content |-> join(outList, <<"\n">>), open |-> TRUE]
    /\ pc' = "done"
    /\ UNCHANGED <<treeName, parentInfo, inData, fileRead, trees, tIdx,
                   outList, err>>
    /\ UNCHANGED <<hybrVars, labelVars>>

\* addNodeNumb applied to the result of the previous application
ApplyLabel ==
    /\ pc = "label"
    /\ lnRuns < MaxRuns
    /\ lnOut' = addNodeNumb(lnOut)
    /\ lnRuns' = lnRuns + 1
    /\ UNCHANGED <<pc, err, lnIn, mainVars, hybrVars>>

---------------------------------------------------------------------------
(* Specifications *)

Next ==
    \/ CheckLikelihoods
    \/ ReadTrees
    \/ StartTree
    \/ SplitBranch
    \/ SpliceHybrid
    \/ FinishTree
    \/ WriteOutput

Spec == Init /\ [][Next]_vars

NextHybr ==
    \/ SplitBranch
    \/ SpliceHybrid

SpecHybr == InitHybr /\ [][NextHybr]_vars

NextLabel == ApplyLabel

SpecLabel == InitLabel /\ [][NextLabel]_vars

---------------------------------------------------------------------------
(* Properties of addNodeNumb (SpecLabel) *)

\* position in T of its k-th ")"
KthClose(T, k) ==
    CHOOSE i \in 1..Len(T) :
        T[i] = ")" /\ Cardinality({j \in 1..i : T[j] = ")"}) = k

\* number of ")" of T before position i
ClosesBefore(T, i) == Cardinality({j \in 1..(i - 1) : T[j] = ")"})

\* total length of the labels s(2n), ..., s(2n-k+1)
RECURSIVE LabelWidth(_, _)
LabelWidth(n, k) ==
    IF k = 0 THEN 0
    ELSE LabelWidth(n, k - 1) + 1 + Len(IntStr(2 * n - k + 1))

\* position in the output of the k-th ")" of T
ClosePos(T, k) == KthClose(T, k) + LabelWidth(Count(T, ")"), k - 1)

\* the digits that follow ")s" at the k-th ")" in the output O
LabelDigits(T, O, k) ==
    SubSeq(O, ClosePos(T, k) + 2,
           ClosePos(T, k) + LabelWidth(Count(T, ")"), k)
               - LabelWidth(Count(T, ")"), k - 1))

\* C1: for a text with n ")", addNodeNumb writes behind the k-th ")" the
\* label s(2n-k+1): the labels decrease strictly from s(2n) to s(n+1), and
\* every other character is kept, in order.
C1_LabelsCountDown ==
    lnRuns = 1 =>
        LET T == lnIn
            O == lnOut
            n == Count(T, ")")
        IN  /\ Len(O) = Len(T) + LabelWidth(n, n)
            /\ Count(O, ")") = n
            /\ \A k \in 1..n :
                  /\ O[ClosePos(T, k)] = ")"
                  /\ O[ClosePos(T, k) + 1] = "s"
                  /\ AllDigits(LabelDigits(T, O, k))
                  /\ IntVal(LabelDigits(T, O, k)) = 2 * n - k + 1
            /\ \A j, k \in 1..n :
                  j < k => IntVal(LabelDigits(T, O, j)) > IntVal(LabelDigits(T, O, k))
            /\ n > 0 => /\ IntVal(LabelDigits(T, O, 1)) = 2 * n
                        /\ IntVal(LabelDigits(T, O, n)) = n + 1
            /\ \A i \in 1..Len(T) :
                  O[i + LabelWidth(n, ClosesBefore(T, i))] = T[i]

\* a labelled text with several ")" and other characters between them
C1_Witness ==
    /\ lnRuns = 1
    /\ Count(lnIn, ")") >= 3
    /\ \E i \in 1..Len(lnIn) : lnIn[i] = "A"
    /\ lnIn[Len(lnIn)] # ")"

\* C9: addNodeNumb applied to its own output changes nothing.
C9_RelabelChangesNothing ==
    lnRuns = 2 => lnOut = addNodeNumb(lnIn)

---------------------------------------------------------------------------
(* Properties of addHybrDict (SpecHybr) *)

HybrReturned ==
    pc = "hybr" /\ err = "none" /\ phase = "split" /\ idx = Len(order)

\* C2: a tree string without "h#" holds, after addHybrDict, one "h#" leaf
\* per entry of the dictionary (one for one entry, two for two), each with
\* the probability of its entry.
C2_OneHybridLeafPerEntry ==
    (HybrReturned /\ CountSub(treeStr, <<"h", "#">>) = 0) =>
        /\ CountSub(inTree, <<"h", "#">>) = Cardinality(DOMAIN hybrDict)
        /\ \A key \in DOMAIN hybrDict :
              CountSub(inTree, <<"h", "#">> \o hybrDict[key] \o <<":">>)
                  = Cardinality({k \in DOMAIN hybrDict :
                                    hybrDict[k] = hybrDict[key]})

\* both entries of a two-entry dictionary have been spliced
C2_Witness ==
    /\ HybrReturned
    /\ Len(order) = 2
    /\ hybrDict[order[1]] # hybrDict[order[2]]

\* C3: steps 2-4 return prefix + "(h#" + probability + ":" + half + "," +
\* label + ":" + half + "):" + half + suffix, the prefix being the text
\* before the first occurrence of the label and the suffix the text after
\* the first occurrence of label:half.
C3_SpliceWrapsLabelOnly ==
    (pc = "hybr" /\ err = "none" /\ phase = "split" /\ idx >= 1) =>
        LET key == order[idx]
            kh  == key \o <<":">> \o half
            T   == prevTree
            prefix == SubSeq(T, 1, Find(T, key, 1) - 1)
            suffix == From(T, Find(T, kh, 1) + Len(kh))
        IN  inTree = prefix \o <<"(", "h", "#">> \o hybrDict[key] \o <<":">>
                         \o half \o <<",">> \o kh \o <<")", ":">> \o half
                         \o suffix

\* the label occurs once in T, as the label of a leaf with a branch length
LeafOnce(T, key) ==
    /\ CountSub(T, key) = 1
    /\ Find(T, key, 1) > 1
    /\ T[Find(T, key, 1) - 1] \in {"(", ","}
    /\ OccursAt(T, key \o <<":">>, Find(T, key, 1))

\* first position from i on of a ")" or a ","
NextStop(T, i) ==
    CHOOSE q \in i..Len(T) :
        /\ T[q] \in {")", ","}
        /\ \A j \in i..(q - 1) : T[j] \notin {")", ","}

\* C4: for a label present exactly once, step 1 takes the token between
\* label: and the next ")" or ",", halves its value, and returns the text
\* with only this token replaced; the length then written behind the label
\* equals half of the original exactly.
C4_SplitHalvesExactly ==
    (pc = "hybr" /\ err = "none" /\ phase = "splice"
        /\ LeafOnce(prevTree, order[idx + 1])) =>
        LET T     == prevTree
            k     == order[idx + 1] \o <<":">>
            start == Find(T, k, 1) + Len(k)
            stop  == NextStop(T, start)
            token == SubSeq(T, start, stop - 1)
        IN  /\ IsFloat(token)
            /\ brlen = float(token)
            /\ inTree = SubSeq(T, 1, start - 1) \o half \o From(T, stop)
            /\ IsFloat(half)
            /\ float(half) = timesHalf(float(token))

\* C10: with two distinct labels that each occur exactly once in the tree
\* string, addHybrDict returns the same text for both iteration orders.
C10_OrderIrrelevant ==
    (/\ pc = "hybr"
     /\ Len(order) = 2
     /\ \A key \in DOMAIN hybrDict : LeafOnce(treeStr, key)
     /\ err # "none" \/ (phase = "split" /\ idx = 2)) =>
        \E tf \in [DOMAIN hybrDict -> BOOLEAN] :
            LET r == addHybrDict(treeStr, hybrDict, <<order[2], order[1]>>, tf)
            IN  r.err = err /\ (err = "none" => r.inTree = inTree)

---------------------------------------------------------------------------
(* Properties of main (Spec) *)

\* the mapping built from parentInfo
Declared == DOMAIN parseParentInfo(parentInfo)

TwoEqualLikelihoods ==
    LET entries == split(parentInfo, ",")
    IN  /\ Len(entries) = 2
        /\ split(entries[1], ":")[2] = split(entries[2], ":")[2]

C7_SuffixMatchesEntries ==
    (outf # NoFile /\ outList # <<>>) =>
        /\ outf.name = rmext(treeName) \o WHybrid
              <=> Cardinality(DOMAIN hybrDict) = 2
        /\ outf.name = rmext(treeName) \o WSister
              <=> Cardinality(DOMAIN hybrDict) = 1

\* the first character of the line that is not whitespace exists and is
\* not "#"
IsTreeLine(line) ==
    \E i \in 1..Len(line) :
        /\ line[i] \notin Whitespace
        /\ line[i] # "#"
        /\ \A j \in 1..(i - 1) : line[j] \in Whitespace

\* C8: blank lines and comment lines are ignored: the output holds one
\* line per other input line, the transformed tree of that line, in input
\* order.
C8_OneOutputLinePerTreeLine ==
    pc = "done" =>
        LET want == SelectSeq(inData, IsTreeLine)
            got  == IF outf.content = <<>> THEN <<>>
                    ELSE split(outf.content, "\n")
        IN  /\ Len(got) = Len(want)
            /\ \A i \in 1..Len(want) :
                  \E tf \in [DOMAIN hybrDict -> BOOLEAN] :
                      LET r == addHybrDict(normalize(want[i]), hybrDict,
                                           order, tf)
                      IN  r.err = "none" /\ got[i] = addNodeNumb(r.inTree)

\* a finished run over a file with a blank line, a comment and a tree
C8_Witness ==
    /\ pc = "done"
    /\ outList # <<>>
    /\ \E i \in 1..Len(inData) : strip(inData[i]) = <<>>
    /\ \E i \in 1..Len(inData) :
          strip(inData[i]) # <<>> /\ strip(inData[i])[1] = "#"

===========================================================================
